---- MODULE Spec2Model ----
(***************************************************************************)
(* Verification model of three parts of xitca-web:                         *)
(*   - the HTTP/2 WINDOW_UPDATE frame codec                                *)
(*       (http/src/h2/proto/window_update.rs),                             *)
(*   - the synchronous middleware bridge (web/src/middleware/sync.rs),     *)
(*   - the flow-control / stream-store rules of the protocol engine, which *)
(*     the design document describes.                                      *)
(* Each part has its own specification over the shared variable tuple.     *)
(***************************************************************************)
EXTENDS Integers, Sequences, FiniteSets, TLC

(***************************************************************************)
(* Bounds of the model.                                                    *)
(***************************************************************************)
\* octets 0..MaxLowOctet are enumerated next to the boundary octets
MaxLowOctet == 1
\* payloads of 0..MaxPayloadLen octets are given to load
MaxPayloadLen == 5
\* a sync function makes 0..MaxCalls calls of Next::call
MaxCalls == 2
\* peers open streams with ids 1..MaxStreamId
MaxStreamId == 3
\* a connection processes at most MaxFrames inbound frames
MaxFrames == 3
\* the application makes at most MaxSends send calls on a connection
MaxSends == 2

(***************************************************************************)
(* u32 values.  A u32 is kept at full width as the pair of its most        *)
(* significant bit and its low 31 bits: [top |-> 0..1, low |-> 0..2^31-1]. *)
(***************************************************************************)
Pow2_8 == 256
Pow2_16 == 256 * 256
Pow2_24 == 256 * 256 * 256
\* 2^31 - 1, the largest 31-bit value
Max31 == 127 * Pow2_24 + (Pow2_24 - 1)

U32(top, low) == [top |-> top, low |-> low]

RECURSIVE And31(_, _, _)
\* bitwise and of the low n bits of two non-negative integers
And31(a, b, n) ==
    IF n = 0 THEN 0
    ELSE (a % 2) * (b % 2) + 2 * And31(a \div 2, b \div 2, n - 1)

\* a & b on u32
U32And(a, b) == U32(a.top * b.top, And31(a.low, b.low, 31))

\* !a on u32
U32Not(a) == U32(1 - a.top, Max31 - a.low)

\* const SIZE_INCREMENT_MASK: u32 = 1 << 31;
SIZE_INCREMENT_MASK == U32(1, 0)

\* the reserved bit of a stream id in the frame head
STREAM_ID_MASK == U32(1, 0)

\* unpack_octets_4!(buf, offset, u32): big-endian read of 4 octets
\* (offset is the 0-based position of the first octet)
unpack_octets_4(buf, offset) ==
    U32(buf[offset + 1] \div 128,
        (buf[offset + 1] % 128) * Pow2_24 + buf[offset + 2] * Pow2_16
            + buf[offset + 3] * Pow2_8 + buf[offset + 4])

\* BufMut::put_u32: appends the 4 big-endian octets of a u32
put_u32(dst, v) ==
    dst \o << v.top * 128 + (v.low \div Pow2_24),
              (v.low \div Pow2_16) % 256,
              (v.low \div Pow2_8) % 256,
              v.low % 256 >>

(***************************************************************************)
(* Frame head.                                                             *)
(***************************************************************************)
\* Kind::WindowUpdate, the frame type octet of WINDOW_UPDATE
Kind_WindowUpdate == 8

\* Head::new(kind, flag, stream_id)
Head_new(kind, flag, stream_id) ==
    [kind |-> kind, flag |-> flag, stream_id |-> stream_id]

\* Head::stream_id
Head_stream_id(head) == head.stream_id

\* Head::encode(payload_len, dst): 24-bit length, type, flags, stream id
Head_encode(head, payload_len, dst) ==
    put_u32(dst \o << (payload_len \div Pow2_16) % 256,
                      (payload_len \div Pow2_8) % 256,
                      payload_len % 256,
                      head.kind,
                      head.flag >>,
            U32(0, head.stream_id))

\* Head::parse(header): reads type, flags and the 31-bit stream id
Head_parse(header) ==
    Head_new(header[4], header[5],
             U32And(unpack_octets_4(header, 5), U32Not(STREAM_ID_MASK)).low)

(***************************************************************************)
(* WindowUpdate (window_update.rs)                                         *)
(***************************************************************************)
\* WindowUpdate::new
WindowUpdate_new(stream_id, size_increment) ==
    [stream_id |-> stream_id, size_increment |-> size_increment]

\* outcomes of a call: Ok(value), Err(error), or a panic of the caller
Ok(v) == [tag |-> "Ok", val |-> v]
Err(e) == [tag |-> "Err", val |-> e]
Panic == [tag |-> "Panic", val |-> "todo"]
NoResult == [tag |-> "None", val |-> "none"]

\* the masked increment read by load
load_size_increment(payload) ==
    U32And(unpack_octets_4(payload, 0), U32Not(SIZE_INCREMENT_MASK))

\* load with the reserved bit left in the increment
load_unmasked(head, payload) ==
    IF Len(payload) # 4 THEN Panic
    ELSE LET size_increment == unpack_octets_4(payload, 0) IN
         IF size_increment = U32(0, 0) THEN Panic
         ELSE Ok(WindowUpdate_new(Head_stream_id(head), size_increment))

\* load that files every frame under the connection stream
load_stream_zero(head, payload) ==
    IF Len(payload) # 4 THEN Panic
    ELSE LET size_increment == load_size_increment(payload) IN
         IF size_increment = U32(0, 0) THEN Panic
         ELSE Ok(WindowUpdate_new(0, size_increment))

\* load without the test for a zero increment
load_no_zero_test(head, payload) ==
    IF Len(payload) # 4 THEN Panic
    ELSE Ok(WindowUpdate_new(Head_stream_id(head), load_size_increment(payload)))

\* WindowUpdate::load(head, payload)
load(head, payload) ==
    IF Len(payload) # 4 THEN Panic                    \* todo!()
    ELSE LET size_increment == load_size_increment(payload) IN
         IF size_increment = U32(0, 0) THEN Panic     \* todo!()
         ELSE Ok(WindowUpdate_new(Head_stream_id(head), size_increment))

\* encode that writes the increment with put_u32_le
encode_le(self, dst) ==
    LET head == Head_new(Kind_WindowUpdate, 0, self.stream_id)
        b == put_u32(<< >>, self.size_increment)
    IN  Head_encode(head, 4, dst) \o << b[4], b[3], b[2], b[1] >>

\* encode that clears the reserved bit of the increment before writing it
encode_masked(self, dst) ==
    LET head == Head_new(Kind_WindowUpdate, 0, self.stream_id) IN
    put_u32(Head_encode(head, 4, dst), U32(0, self.size_increment.low))

\* WindowUpdate::encode(&self, dst)
encode(self, dst) ==
    LET head == Head_new(Kind_WindowUpdate, 0, self.stream_id) IN
    put_u32(Head_encode(head, 4, dst), self.size_increment)

(***************************************************************************)
(* Inputs of the codec specification.                                      *)
(***************************************************************************)
Octets == (0 .. MaxLowOctet) \cup {16, 127, 128, 255}

StreamIds == {0, 1, 3, Max31}

Payloads == UNION { [1 .. n -> Octets] : n \in 0 .. MaxPayloadLen }

Heads == { Head_new(k, 0, s) : k \in {0, Kind_WindowUpdate}, s \in StreamIds }

U32Samples == { unpack_octets_4(p, 0) : p \in [1 .. 4 -> Octets] }

Frames == { WindowUpdate_new(s, i) : s \in StreamIds, i \in U32Samples }

NoHead == Head_new(0, 0, 0)
NoFrame == WindowUpdate_new(0, U32(0, 0))

VARIABLES
    wu_pc,       \* "load" | "encode" | "loaded" | "encoded" | "decoded" | "off"
    wu_head,     \* the head given to load
    wu_payload,  \* the payload given to load
    wu_frame,    \* the frame given to encode
    wu_dst,      \* the buffer encode wrote
    wu_res       \* the outcome of load

wu_vars == << wu_pc, wu_head, wu_payload, wu_frame, wu_dst, wu_res >>

VARIABLES
    s_func,      \* the sync function: [calls, final]
    s_inner,     \* what the inner service returns when it is called
    s_req0,      \* the request SyncService::call was given
    s_result,    \* the outcome of SyncService::call
    a_pc,        \* position of the async task in SyncService::call
    a_req,       \* the request held by the caller's ctx
    a_res,       \* the result of self.service.call(ctx)
    inner_calls, \* the requests the inner service was called with
    t_pc,        \* position of the blocking thread
    t_req,       \* the request held by the thread's ctx
    t_calls,     \* calls of Next::call the function has made
    t_sent,      \* the requests Next::call handed over
    t_last,      \* what the last Next::call returned
    t_panic,     \* "none" | "func" (the function panicked) | "next"
    handle,      \* outcome of the spawn_blocking JoinHandle
    chan,        \* unbounded_channel tx -> rx: requests in flight
    tx_alive,    \* Next.tx not yet dropped
    rx_alive,    \* rx not yet dropped
    chan2,       \* sync_channel(1) tx2 -> rx2: results in flight
    tx2_alive,   \* tx2 not yet dropped
    rx2_alive    \* Next.rx not yet dropped

sy_vars == << s_func, s_inner, s_req0, s_result, a_pc, a_req, a_res,
              inner_calls, t_pc, t_req, t_calls, t_sent, t_last, t_panic,
              handle, chan, tx_alive, rx_alive, chan2, tx2_alive, rx2_alive >>

VARIABLES
    c_state,       \* "off" | "open" | "closed" (after a connection error)
    c_streams,     \* Stream Store: stream id -> [state, send_window]
    c_last_peer,   \* highest stream id seen from the peer
    c_send_window, \* connection-level send window
    c_opened,      \* the ids for which a Stream was created, in order
    c_event,       \* the inbound frame the last step handled and what became of it
    c_frames,      \* inbound frames processed
    c_end_sent,    \* streams on which END_STREAM was sent
    c_end_recv,    \* streams on which END_STREAM was received
    c_pending,     \* stream id -> octets of the parked send (0: none)
    c_sendev,      \* the Data or Headers the last step sent, parked or refused
    c_sends        \* send calls made by the application

h2_vars == << c_state, c_streams, c_last_peer, c_send_window, c_opened,
              c_event, c_frames, c_end_sent, c_end_recv, c_pending,
              c_sendev, c_sends >>

vars == << wu_vars, sy_vars, h2_vars >>

\* SETTINGS_INITIAL_WINDOW_SIZE default
InitialWindowSize == 65535

PeerStreamIds == 1 .. MaxStreamId

\* a stream id that is not in the Stream Store is Idle
IdleStream == [state |-> "Idle", send_window |-> InitialWindowSize]

NoEvent ==
    [kind |-> "none", sid |-> 0, inc |-> 0, before |-> 0, known |-> FALSE,
     last |-> 0, state |-> "none", ended |-> FALSE,
     outcome |-> "none", code |-> "none"]

NoSendEvent ==
    [kind |-> "none", sid |-> 0, n |-> 0, stream_before |-> 0,
     conn_before |-> 0, outcome |-> "none"]

\* the protocol engine is not exercised
H2Off ==
    /\ c_state = "off"
    /\ c_streams = [id \in PeerStreamIds |-> IdleStream]
    /\ c_last_peer = 0
    /\ c_send_window = InitialWindowSize
    /\ c_opened = << >>
    /\ c_event = NoEvent
    /\ c_frames = 0
    /\ c_end_sent = {}
    /\ c_end_recv = {}
    /\ c_pending = [id \in PeerStreamIds |-> 0]
    /\ c_sendev = NoSendEvent
    /\ c_sends = 0

\* the codec is not exercised
WUOff ==
    /\ wu_pc = "off"
    /\ wu_head = NoHead
    /\ wu_payload = << >>
    /\ wu_frame = NoFrame
    /\ wu_dst = << >>
    /\ wu_res = NoResult

(***************************************************************************)
(* Sync middleware (web/src/middleware/sync.rs): values                    *)
(***************************************************************************)
Requests == {"r1", "r2"}
\* Request::default(), what mem::take leaves behind
DefaultRequest == "default"

Heads200 == {"200", "404"}
Bodies == {"b1", "b2"}
Errors == {"e1", "e2"}

\* Response<B>
Response(head, body) == [head |-> head, body |-> body]
\* Response::from_parts(parts, ())
UnitResponse(res) == Response(res.head, "unit")
\* res.map(|_| body)
MapBody(res, body) == Response(res.head, body)

\* the response and the error a sync function produces on its own
FuncResponse == Response("403", "unit")
FuncError == "ef"

\* what the inner service may return
InnerOutcomes ==
    { Ok(Response(h, b)) : h \in Heads200, b \in Bodies } \cup { Err(e) : e \in Errors }

\* a sync function: it calls Next::call `calls` times, then
\*   "pass": returns what the last Next::call returned,
\*   "ok": returns Ok(FuncResponse), "err": returns Err(FuncError),
\*   "panic": panics
Funcs ==
    { f \in [calls : 0 .. MaxCalls, final : {"pass", "ok", "err", "panic"}] :
        f.final = "pass" => f.calls >= 1 }

\* the middleware function of the tests: `next.call(ctx)`
PassThrough == [calls |-> 1, final |-> "pass"]

\* the middleware is not exercised
SYOff ==
    /\ s_func = [calls |-> 0, final |-> "ok"]
    /\ s_inner = NoResult
    /\ s_req0 = DefaultRequest
    /\ s_result = NoResult
    /\ a_pc = "off"
    /\ a_req = DefaultRequest
    /\ a_res = NoResult
    /\ inner_calls = << >>
    /\ t_pc = "none"
    /\ t_req = DefaultRequest
    /\ t_calls = 0
    /\ t_sent = << >>
    /\ t_last = NoResult
    /\ t_panic = "none"
    /\ handle = NoResult
    /\ chan = << >>
    /\ tx_alive = FALSE
    /\ rx_alive = FALSE
    /\ chan2 = << >>
    /\ tx2_alive = FALSE
    /\ rx2_alive = FALSE

WUInit ==
    /\ SYOff
    /\ H2Off
    /\ wu_dst = << >>
    /\ wu_res = NoResult
    /\ \/ /\ wu_pc = "load"
          /\ wu_head \in Heads
          /\ wu_payload \in Payloads
          /\ wu_frame = NoFrame
       \/ /\ wu_pc = "encode"
          /\ wu_head = NoHead
          /\ wu_payload = << >>
          /\ wu_frame \in Frames

\* a received frame is decoded: WindowUpdate::load(head, payload)
Load ==
    /\ wu_pc = "load"
    /\ wu_res' = load(wu_head, wu_payload)
    /\ wu_pc' = "loaded"
    /\ UNCHANGED << wu_head, wu_payload, wu_frame, wu_dst >>
    /\ UNCHANGED << sy_vars, h2_vars >>

\* a frame is written: frame.encode(&mut dst)
Encode ==
    /\ wu_pc = "encode"
    /\ wu_dst' = encode(wu_frame, << >>)
    /\ wu_pc' = "encoded"
    /\ UNCHANGED << wu_head, wu_payload, wu_frame, wu_res >>
    /\ UNCHANGED << sy_vars, h2_vars >>

\* the written octets are read back: the 9-octet head is parsed and load is
\* given the head and the octets after it
LoadEncoded ==
    /\ wu_pc = "encoded"
    /\ Len(wu_dst) >= 9
    /\ wu_head' = Head_parse(SubSeq(wu_dst, 1, 9))
    /\ wu_payload' = SubSeq(wu_dst, 10, Len(wu_dst))
    /\ wu_res' = load(wu_head', wu_payload')
    /\ wu_pc' = "decoded"
    /\ UNCHANGED << wu_frame, wu_dst >>
    /\ UNCHANGED << sy_vars, h2_vars >>

WUNext == Load \/ Encode \/ LoadEncoded

WUSpec == WUInit /\ [][WUNext]_vars

(***************************************************************************)
(* Properties of the WindowUpdate codec.                                   *)
(***************************************************************************)
\* a frame that is valid on the wire: increment in 1..2^31-1
ValidFrame(f) == f.size_increment.top = 0 /\ f.size_increment.low >= 1

\* the 31-bit increment a 4-octet payload carries, reserved bit dropped
Increment31(p) == (p[1] % 128) * Pow2_24 + p[2] * Pow2_16 + p[3] * Pow2_8 + p[4]

LoadDone == wu_pc \in {"loaded", "decoded"}

\* C1: round trip.  For every valid WindowUpdate f, load applied to the head
\* and the payload that f.encode wrote returns Ok(g) with g = f.
C1_RoundTrip ==
    (wu_pc = "decoded" /\ ValidFrame(wu_frame)) => wu_res = Ok(wu_frame)

C1_Witness ==
    /\ wu_pc = "decoded"
    /\ ValidFrame(wu_frame)
    /\ wu_frame.stream_id = Max31
    /\ wu_frame.size_increment.low > Pow2_24
    /\ wu_res.tag = "Ok"

\* C2: load of a payload whose 31-bit increment is 0 returns an error result
\* (Err), and produces no WindowUpdate value.
C2_ZeroIncrementIsErr ==
    (LoadDone /\ Len(wu_payload) = 4 /\ Increment31(wu_payload) = 0)
        => wu_res.tag = "Err"

\* C3: load of a payload whose length is not 4 returns a framing-size error
\* result (Err), and produces no WindowUpdate value.
C3_BadSizeIsErr ==
    (LoadDone /\ Len(wu_payload) # 4) => wu_res.tag = "Err"

\* the payload with the reserved bit of its first octet cleared
ClearTop(p) == [p EXCEPT ![1] = p[1] % 128]

\* C4: for a 4-octet payload with the top bit set and a non-zero low part,
\* load returns Ok with size_increment = i & 0x7FFFFFFF, the same result as
\* for the payload with the top bit clear.
C4_ReservedBitCleared ==
    (LoadDone /\ Len(wu_payload) = 4 /\ wu_payload[1] >= 128
        /\ Increment31(wu_payload) # 0)
        => /\ wu_res.tag = "Ok"
           /\ wu_res.val.size_increment = U32(0, Increment31(wu_payload))
           /\ wu_res = load(wu_head, ClearTop(wu_payload))

C4_Witness ==
    /\ wu_pc = "loaded"
    /\ wu_payload = << 255, 255, 255, 255 >>
    /\ wu_res.tag = "Ok"
    /\ wu_res.val.size_increment = U32(0, Max31)

\* C5: decoding a well-formed WindowUpdate takes the stream id from the head
\* and the increment from the payload, read big-endian; the head of stream 1
\* with payload 00 00 00 10 gives WindowUpdate{stream_id=1, size_increment=16}.
C5_DecodeFields ==
    /\ (LoadDone /\ Len(wu_payload) = 4 /\ Increment31(wu_payload) # 0)
          => /\ wu_res.tag = "Ok"
             /\ wu_res.val.stream_id = wu_head.stream_id
             /\ wu_res.val.size_increment.top = 0
             /\ wu_res.val.size_increment.low = Increment31(wu_payload)
    /\ (LoadDone /\ wu_head.stream_id = 1 /\ wu_payload = << 0, 0, 0, 16 >>)
          => wu_res = Ok(WindowUpdate_new(1, U32(0, 16)))

C5_Witness ==
    /\ wu_pc = "loaded"
    /\ wu_head.stream_id = 1
    /\ wu_payload = << 0, 0, 0, 16 >>
    /\ wu_res = Ok(WindowUpdate_new(1, U32(0, 16)))

\* the 4 big-endian octets of a 31-bit value with a given top bit
BigEndian4(top, low) ==
    << top * 128 + low \div Pow2_24, (low \div Pow2_16) % Pow2_8,
       (low \div Pow2_8) % Pow2_8, low % Pow2_8 >>

\* C13: encode is total and writes the fixed wire layout: for every stream
\* id and every u32 size_increment it writes exactly 13 octets, a 9-octet
\* head (length 4, type WindowUpdate, flags 0, the stream id) followed by
\* size_increment as 4 big-endian octets.
C13_EncodeLayout ==
    (wu_pc \in {"encoded", "decoded"})
        => /\ Len(wu_dst) = 13
           /\ SubSeq(wu_dst, 1, 5) = << 0, 0, 4, 8, 0 >>
           /\ SubSeq(wu_dst, 6, 9) = BigEndian4(0, wu_frame.stream_id)
           /\ SubSeq(wu_dst, 10, 13) =
                 BigEndian4(wu_frame.size_increment.top, wu_frame.size_increment.low)

C13_Witness ==
    /\ wu_pc = "encoded"
    /\ wu_frame = WindowUpdate_new(3, U32(1, Max31))
    /\ wu_dst = << 0, 0, 4, 8, 0, 0, 0, 0, 3, 255, 255, 255, 255 >>

\* C17: every WindowUpdate that load returns as Ok has a size_increment in
\* 1..2^31-1: never 0 and never with the reserved top bit set.
C17_LoadedIncrementInRange ==
    (LoadDone /\ wu_res.tag = "Ok")
        => /\ wu_res.val.size_increment.top = 0
           /\ wu_res.val.size_increment.low >= 1
           /\ wu_res.val.size_increment.low <= Max31

C17_Witness ==
    /\ wu_pc = "loaded"
    /\ wu_payload = << 128, 0, 0, 1 >>
    /\ wu_res.tag = "Ok"
    /\ wu_res.val.size_increment = U32(0, 1)

(***************************************************************************)
(* Sync middleware: SyncService::call and the blocking thread              *)
(***************************************************************************)
SYInit ==
    /\ WUOff
    /\ H2Off
    /\ s_func \in Funcs
    /\ s_inner \in InnerOutcomes
    /\ s_req0 \in Requests
    /\ s_result = NoResult
    /\ a_pc = "start"
    /\ a_req = s_req0
    /\ a_res = NoResult
    /\ inner_calls = << >>
    /\ t_pc = "none"
    /\ t_req = DefaultRequest
    /\ t_calls = 0
    /\ t_sent = << >>
    /\ t_last = NoResult
    /\ t_panic = "none"
    /\ handle = NoResult
    /\ chan = << >>
    /\ tx_alive = FALSE
    /\ rx_alive = FALSE
    /\ chan2 = << >>
    /\ tx2_alive = FALSE
    /\ rx2_alive = FALSE

\* SyncService::call, lines 78-90: the request is taken out of ctx, the two
\* channels are made and the closure is handed to spawn_blocking
A_Spawn ==
    /\ a_pc = "start"
    /\ a_pc' = "recv"
    /\ t_req' = a_req
    /\ a_req' = DefaultRequest
    /\ t_pc' = "func"
    /\ tx_alive' = TRUE
    /\ rx_alive' = TRUE
    /\ tx2_alive' = TRUE
    /\ rx2_alive' = TRUE
    /\ UNCHANGED << s_func, s_inner, s_req0, s_result, a_res, inner_calls,
                    t_calls, t_sent, t_last, t_panic, handle, chan, chan2 >>
    /\ UNCHANGED << wu_vars, h2_vars >>

\* SyncService::call returns or panics: its locals rx and tx2 are dropped
A_Finish(result) ==
    /\ s_result' = result
    /\ a_pc' = "done"
    /\ rx_alive' = FALSE
    /\ tx2_alive' = FALSE

\* a receive that goes on to the inner service when the sender is gone
A_Recv_always_forward ==
    /\ a_pc = "recv"
    /\ \/ /\ chan # << >>
          /\ a_req' = Head(chan)
          /\ chan' = Tail(chan)
          /\ a_pc' = "service"
       \/ /\ chan = << >>
          /\ ~tx_alive
          /\ a_pc' = "service"
          /\ UNCHANGED << a_req, chan >>
    /\ UNCHANGED << s_func, s_inner, s_req0, s_result, a_res, inner_calls,
                    t_pc, t_req, t_calls, t_sent, t_last, t_panic, handle,
                    tx_alive, rx_alive, chan2, tx2_alive, rx2_alive >>
    /\ UNCHANGED << wu_vars, h2_vars >>

\* line 92: rx.recv().await.  Some(req) when a request is queued; None when
\* the queue is empty and the sender was dropped
A_Recv ==
    /\ a_pc = "recv"
    /\ \/ /\ chan # << >>
          /\ a_req' = Head(chan)
          /\ chan' = Tail(chan)
          /\ a_pc' = "service"
       \/ /\ chan = << >>
          /\ ~tx_alive
          /\ a_pc' = "join_none"
          /\ UNCHANGED << a_req, chan >>
    /\ UNCHANGED << s_func, s_inner, s_req0, s_result, a_res, inner_calls,
                    t_pc, t_req, t_calls, t_sent, t_last, t_panic, handle,
                    tx_alive, rx_alive, chan2, tx2_alive, rx2_alive >>
    /\ UNCHANGED << wu_vars, h2_vars >>

\* a join that unwraps the function's result as well
join_none_result_unwrap(h) ==
    IF h.tag = "Panic" THEN Panic
    ELSE IF h.val.tag = "Ok" THEN Panic
    ELSE Panic

\* lines 96-99: match handle.await.unwrap()
join_none_result(h) ==
    IF h.tag = "Panic" THEN Panic                      \* unwrap of JoinError
    ELSE IF h.val.tag = "Ok" THEN Panic                \* todo!()
    ELSE Err(h.val.val)                                \* return Err(e)

\* lines 94-100: the thread exited without a request; join it
A_JoinNone ==
    /\ a_pc = "join_none"
    /\ handle # NoResult
    /\ A_Finish(join_none_result(handle))
    /\ UNCHANGED << s_func, s_inner, s_req0, a_req, a_res, inner_calls,
                    t_pc, t_req, t_calls, t_sent, t_last, t_panic, handle,
                    chan, tx_alive, chan2, rx2_alive >>
    /\ UNCHANGED << wu_vars, h2_vars >>

\* line 103: self.service.call(ctx) starts with the request put back in ctx
A_ServiceCall ==
    /\ a_pc = "service"
    /\ inner_calls' = Append(inner_calls, a_req)
    /\ a_pc' = "inner"
    /\ UNCHANGED << s_func, s_inner, s_req0, s_result, a_req, a_res,
                    t_pc, t_req, t_calls, t_sent, t_last, t_panic, handle,
                    chan, tx_alive, rx_alive, chan2, tx2_alive, rx2_alive >>
    /\ UNCHANGED << wu_vars, h2_vars >>

\* line 103: the inner service's call completes
A_ServiceDone ==
    /\ a_pc = "inner"
    /\ a_res' = s_inner
    /\ a_pc' = "send"
    /\ UNCHANGED << s_func, s_inner, s_req0, s_result, a_req, inner_calls,
                    t_pc, t_req, t_calls, t_sent, t_last, t_panic, handle,
                    chan, tx_alive, rx_alive, chan2, tx2_alive, rx2_alive >>
    /\ UNCHANGED << wu_vars, h2_vars >>

\* an error of the inner service is sent to the thread as a response
sent_result_err_as_response(res) ==
    IF res.tag = "Ok" THEN Ok(UnitResponse(res.val))
    ELSE Ok(Response("500", "unit"))

\* lines 105-106 and 111: what is sent to the thread
sent_result(res) ==
    IF res.tag = "Ok" THEN Ok(UnitResponse(res.val)) ELSE res

\* lines 106 and 111: tx2.send(..).unwrap(); the send fails when the
\* receiver is gone and waits while the one slot is taken
A_Send ==
    /\ a_pc = "send"
    /\ \/ /\ rx2_alive
          /\ Len(chan2) < 1
          /\ chan2' = Append(chan2, sent_result(a_res))
          /\ a_pc' = "join"
          /\ UNCHANGED << s_result, rx_alive, tx2_alive >>
       \/ /\ ~rx2_alive
          /\ A_Finish(Panic)
          /\ UNCHANGED chan2
    /\ UNCHANGED << s_func, s_inner, s_req0, a_req, a_res, inner_calls,
                    t_pc, t_req, t_calls, t_sent, t_last, t_panic, handle,
                    chan, tx_alive, rx2_alive >>
    /\ UNCHANGED << wu_vars, h2_vars >>

\* a join that answers a panicked thread with an empty response
join_result_swallow(h, res) ==
    IF h.tag = "Panic" THEN Ok(Response("200", "unit"))
    ELSE IF h.val.tag = "Err" THEN h.val
    ELSE IF res.tag = "Ok" THEN Ok(MapBody(h.val.val, res.val.body))
    ELSE Panic

\* a join that keeps the unit body of the function's response
join_result_no_body(h, res) ==
    IF h.tag = "Panic" THEN Panic
    ELSE IF h.val.tag = "Err" THEN h.val
    ELSE IF res.tag = "Ok" THEN Ok(h.val.val)
    ELSE Panic

\* lines 107-108 and 112-113: handle.await.unwrap()? and res.map(..)
join_result(h, res) ==
    IF h.tag = "Panic" THEN Panic                      \* unwrap of JoinError
    ELSE IF h.val.tag = "Err" THEN h.val               \* `?`
    ELSE IF res.tag = "Ok" THEN Ok(MapBody(h.val.val, res.val.body))
    ELSE Panic                                         \* todo!() in map

\* lines 107-108 and 112-113: the thread is joined and call returns
A_Join ==
    /\ a_pc = "join"
    /\ handle # NoResult
    /\ A_Finish(join_result(handle, a_res))
    /\ UNCHANGED << s_func, s_inner, s_req0, a_req, a_res, inner_calls,
                    t_pc, t_req, t_calls, t_sent, t_last, t_panic, handle,
                    chan, tx_alive, chan2, rx2_alive >>
    /\ UNCHANGED << wu_vars, h2_vars >>

\* the closure ends (return or panic): `next` is dropped with it
T_Exit(h, panic) ==
    /\ handle' = h
    /\ t_panic' = panic
    /\ t_pc' = "exited"
    /\ tx_alive' = FALSE
    /\ rx2_alive' = FALSE

\* Next::call, lines 41-42: the request is taken and sent; the send fails
\* when the receiver is gone
T_NextSend ==
    /\ t_pc = "func"
    /\ t_calls < s_func.calls
    /\ \/ /\ rx_alive
          /\ chan' = Append(chan, t_req)
          /\ t_sent' = Append(t_sent, t_req)
          /\ t_req' = DefaultRequest
          /\ t_calls' = t_calls + 1
          /\ t_pc' = "recv"
          /\ UNCHANGED << handle, t_panic, tx_alive, rx2_alive >>
       \/ /\ ~rx_alive
          /\ T_Exit(Panic, "next")
          /\ UNCHANGED << chan, t_sent, t_req, t_calls >>
    /\ UNCHANGED << s_func, s_inner, s_req0, s_result, a_pc, a_req, a_res,
                    inner_calls, t_last, rx_alive, chan2, tx2_alive >>
    /\ UNCHANGED << wu_vars, h2_vars >>

\* Next::call, line 43: self.rx.recv().unwrap() blocks until a result is
\* queued; it fails when the queue is empty and the sender was dropped
T_NextRecv ==
    /\ t_pc = "recv"
    /\ \/ /\ chan2 # << >>
          /\ t_last' = Head(chan2)
          /\ chan2' = Tail(chan2)
          /\ t_pc' = "func"
          /\ UNCHANGED << handle, t_panic, tx_alive, rx2_alive >>
       \/ /\ chan2 = << >>
          /\ ~tx2_alive
          /\ T_Exit(Panic, "next")
          /\ UNCHANGED << t_last, chan2 >>
    /\ UNCHANGED << s_func, s_inner, s_req0, s_result, a_pc, a_req, a_res,
                    inner_calls, t_req, t_calls, t_sent, rx_alive, chan,
                    tx2_alive >>
    /\ UNCHANGED << wu_vars, h2_vars >>

\* lines 86-90: what the closure leaves in the JoinHandle
func_outcome(f, last) ==
    CASE f.final = "pass" -> Ok(last)
      [] f.final = "ok" -> Ok(Ok(FuncResponse))
      [] f.final = "err" -> Ok(Err(FuncError))
      [] f.final = "panic" -> Panic

\* line 89: the function returns or panics after its last Next::call
T_Return ==
    /\ t_pc = "func"
    /\ t_calls = s_func.calls
    /\ T_Exit(func_outcome(s_func, t_last),
              IF s_func.final = "panic" THEN "func" ELSE "none")
    /\ UNCHANGED << s_func, s_inner, s_req0, s_result, a_pc, a_req, a_res,
                    inner_calls, t_req, t_calls, t_sent, t_last, rx_alive,
                    chan, chan2, tx2_alive >>
    /\ UNCHANGED << wu_vars, h2_vars >>

SYNext ==
    \/ A_Spawn
    \/ A_Recv
    \/ A_JoinNone
    \/ A_ServiceCall
    \/ A_ServiceDone
    \/ A_Send
    \/ A_Join
    \/ T_NextSend
    \/ T_NextRecv
    \/ T_Return

SYSpec == SYInit /\ [][SYNext]_vars

\* the runtime keeps polling the task and the blocking pool keeps running
\* the thread
SYLive == SYSpec /\ WF_vars(SYNext)

(***************************************************************************)
(* Protocol engine: Flow Controller, Stream Store and the inbound half of  *)
(* the Connection Multiplexer, as the design document describes them.      *)
(***************************************************************************)
\* increments carried by inbound WINDOW_UPDATE frames
Increments == {0, 1, Max31 - InitialWindowSize, Max31}

H2Init ==
    /\ WUOff
    /\ SYOff
    /\ c_state = "open"
    /\ c_streams = [id \in PeerStreamIds |-> IdleStream]
    /\ c_last_peer = 0
    /\ c_send_window = InitialWindowSize
    /\ c_opened = << >>
    /\ c_event = NoEvent
    /\ c_frames = 0
    /\ c_end_sent = {}
    /\ c_end_recv = {}
    /\ c_pending = [id \in PeerStreamIds |-> 0]
    /\ c_sendev = NoSendEvent
    /\ c_sends = 0

\* window + inc would exceed 2^31-1 (inc is a 31-bit value)
WindowOverflows(window, inc) == window > 0 /\ inc > Max31 - window

\* window arithmetic that wraps like i32::wrapping_add
apply_increment_wrapping(window, inc) ==
    IF inc = 0 THEN [ok |-> FALSE, window |-> window]
    ELSE IF WindowOverflows(window, inc)
         THEN [ok |-> TRUE, window |-> ((window - Max31) - 1) + ((inc - Max31) - 1)]
         ELSE [ok |-> TRUE, window |-> window + inc]

\* Flow Controller: overflow-checked application of an increment;
\* an increment of 0 or a total above 2^31-1 is a flow-control error
apply_increment(window, inc) ==
    IF inc = 0 \/ WindowOverflows(window, inc)
    THEN [ok |-> FALSE, window |-> window]
    ELSE [ok |-> TRUE, window |-> window + inc]

\* a Stream Store that opens any id it does not hold
classify_headers_any_order(streams, last, sid) ==
    CASE streams[sid].state = "Closed" -> "closed"
      [] streams[sid].state # "Idle" -> "existing"
      [] OTHER -> "new"

\* Stream Store: what a Headers frame for stream sid is
classify_headers(streams, last, sid) ==
    CASE streams[sid].state = "Closed" -> "closed"
      [] streams[sid].state # "Idle" -> "existing"
      [] sid <= last -> "out_of_order"
      [] OTHER -> "new"

\* Stream State Machine: END_STREAM received
recv_end(state) ==
    CASE state = "Open" -> "HalfClosedRemote"
      [] state = "HalfClosedLocal" -> "Closed"
      [] OTHER -> state

\* Stream State Machine: END_STREAM sent
send_end(state) ==
    CASE state = "Open" -> "HalfClosedLocal"
      [] state = "HalfClosedRemote" -> "Closed"
      [] OTHER -> state

\* a state machine that only rejects Data for streams it never saw
classify_data_deliver_closed(state) ==
    CASE state = "Idle" -> "idle"
      [] OTHER -> "deliver"

\* Stream State Machine: what an inbound Data frame is in a given state
classify_data(state) ==
    CASE state = "Idle" -> "idle"
      [] state \in {"Closed", "HalfClosedRemote"} -> "closed"
      [] OTHER -> "deliver"

\* the states in which the local end may still send
CanSend(state) == state \in {"Open", "HalfClosedRemote"}

\* an admission check that looks at the stream window only
admissible_stream_only(stream_window, conn_window, n) == stream_window >= n

\* Flow Controller, outbound admission: both windows must hold n octets
admissible(stream_window, conn_window, n) ==
    stream_window >= n /\ conn_window >= n

Event(kind, sid, inc, outcome, code) ==
    [kind |-> kind, sid |-> sid, inc |-> inc,
     before |-> IF sid = 0 THEN c_send_window ELSE c_streams[sid].send_window,
     known |-> sid # 0 /\ c_streams[sid].state # "Idle",
     last |-> c_last_peer,
     state |-> IF sid = 0 THEN "none" ELSE c_streams[sid].state,
     ended |-> sid \in c_end_sent /\ sid \in c_end_recv,
     outcome |-> outcome, code |-> code]

SendEvent(kind, sid, n, outcome) ==
    [kind |-> kind, sid |-> sid, n |-> n,
     stream_before |-> c_streams[sid].send_window,
     conn_before |-> c_send_window, outcome |-> outcome]

\* a connection error: GOAWAY is sent and the connection is closed
ConnError(kind, sid, inc, code) ==
    /\ c_state' = "closed"
    /\ c_event' = Event(kind, sid, inc, "conn_error", code)
    /\ UNCHANGED << c_streams, c_last_peer, c_send_window, c_opened,
                    c_end_recv, c_pending >>

\* a stream error: RstStream is sent, the stream is Closed and its parked
\* send is discarded; its window stays
StreamError(kind, sid, inc, code) ==
    /\ c_streams' = [c_streams EXCEPT ![sid].state = "Closed"]
    /\ c_pending' = [c_pending EXCEPT ![sid] = 0]
    /\ c_event' = Event(kind, sid, inc, "stream_error", code)
    /\ UNCHANGED << c_state, c_last_peer, c_send_window, c_opened, c_end_recv >>

\* the frame is accepted; with END_STREAM the remote end of the stream closes
Accept(kind, sid, end, outcome) ==
    /\ c_streams' = [c_streams EXCEPT
                       ![sid].state = IF end THEN recv_end(@) ELSE @]
    /\ c_end_recv' = IF end THEN c_end_recv \cup {sid} ELSE c_end_recv
    /\ c_event' = Event(kind, sid, 0, outcome, "none")
    /\ UNCHANGED << c_state, c_last_peer, c_send_window, c_opened, c_pending >>

\* an inbound Headers frame for stream sid, with or without END_STREAM
RecvHeaders ==
    /\ c_state = "open"
    /\ c_frames < MaxFrames
    /\ c_frames' = c_frames + 1
    /\ \E sid \in PeerStreamIds, end \in BOOLEAN :
         LET class == classify_headers(c_streams, c_last_peer, sid) IN
         CASE class = "closed" -> StreamError("headers", sid, 0, "STREAM_CLOSED")
           [] class = "existing" ->
                \* trailers carry END_STREAM and need an open remote end
                IF ~end
                THEN StreamError("headers", sid, 0, "PROTOCOL_ERROR")
                ELSE IF classify_data(c_streams[sid].state) = "closed"
                THEN StreamError("headers", sid, 0, "STREAM_CLOSED")
                ELSE Accept("headers", sid, TRUE, "ok")
           [] class = "out_of_order" -> ConnError("headers", sid, 0, "PROTOCOL_ERROR")
           [] class = "new" ->
                /\ c_streams' = [c_streams EXCEPT
                       ![sid].state = IF end THEN "HalfClosedRemote" ELSE "Open"]
                /\ c_end_recv' = IF end THEN c_end_recv \cup {sid} ELSE c_end_recv
                /\ c_last_peer' = sid
                /\ c_opened' = Append(c_opened, sid)
                /\ c_event' = Event("headers", sid, 0, "ok", "none")
                /\ UNCHANGED << c_state, c_send_window, c_pending >>
    /\ c_sendev' = NoSendEvent
    /\ UNCHANGED << c_end_sent, c_sends >>
    /\ UNCHANGED << wu_vars, sy_vars >>

\* an inbound Data frame for stream sid, with or without END_STREAM
RecvData ==
    /\ c_state = "open"
    /\ c_frames < MaxFrames
    /\ c_frames' = c_frames + 1
    /\ \E sid \in PeerStreamIds, end \in BOOLEAN :
         LET class == classify_data(c_streams[sid].state) IN
         CASE class = "idle" -> ConnError("data", sid, 0, "PROTOCOL_ERROR")
           [] class = "closed" -> StreamError("data", sid, 0, "STREAM_CLOSED")
           [] class = "deliver" -> Accept("data", sid, end, "delivered")
    /\ c_sendev' = NoSendEvent
    /\ UNCHANGED << c_end_sent, c_sends >>
    /\ UNCHANGED << wu_vars, sy_vars >>

\* the parked sends are re-evaluated in the given order of streams: each one
\* that both windows admit is emitted; ev is the last send that went out
RECURSIVE resume_parked(_, _, _, _, _)
resume_parked(order, streams, conn, pending, ev) ==
    IF order = << >>
    THEN [streams |-> streams, conn |-> conn, pending |-> pending, ev |-> ev]
    ELSE LET sid == Head(order)
             n == pending[sid]
         IN  IF n > 0 /\ CanSend(streams[sid].state)
                /\ admissible(streams[sid].send_window, conn, n)
             THEN resume_parked(Tail(order),
                                [streams EXCEPT ![sid].send_window = @ - n],
                                conn - n,
                                [pending EXCEPT ![sid] = 0],
                                [kind |-> "data", sid |-> sid, n |-> n,
                                 stream_before |-> streams[sid].send_window,
                                 conn_before |-> conn, outcome |-> "resumed"])
             ELSE resume_parked(Tail(order), streams, conn, pending, ev)

\* the streams with a parked send
Parked == { id \in PeerStreamIds : c_pending[id] > 0 }

\* the orders in which the parked sends may be re-evaluated
ResumeOrders ==
    { o \in [1 .. Cardinality(Parked) -> Parked] :
        \A i, j \in DOMAIN o : i # j => o[i] # o[j] }

\* the increment was applied: the parked sends are re-evaluated
Resume(streams, conn, sid, inc) ==
    \E order \in ResumeOrders :
        LET r == resume_parked(order, streams, conn, c_pending, NoSendEvent) IN
        /\ c_streams' = r.streams
        /\ c_send_window' = r.conn
        /\ c_pending' = r.pending
        /\ c_sendev' = r.ev
        /\ c_event' = Event("window_update", sid, inc, "ok", "none")
        /\ UNCHANGED << c_state, c_last_peer, c_opened, c_end_recv >>

\* an inbound WindowUpdate frame for stream sid (0: the connection); for a
\* stream that was never opened it is a protocol violation of the connection,
\* for a Closed stream it is absorbed by the grace period; an increment that
\* was applied is followed by the re-evaluation of the parked sends
RecvWindowUpdate ==
    /\ c_state = "open"
    /\ c_frames < MaxFrames
    /\ c_frames' = c_frames + 1
    /\ \E sid \in {0} \cup PeerStreamIds, inc \in Increments :
         IF sid = 0
         THEN LET r == apply_increment(c_send_window, inc) IN
              IF r.ok
              THEN Resume(c_streams, r.window, sid, inc)
              ELSE /\ ConnError("window_update", sid, inc, "FLOW_CONTROL_ERROR")
                   /\ c_sendev' = NoSendEvent
         ELSE CASE c_streams[sid].state = "Idle" ->
                     /\ ConnError("window_update", sid, inc, "PROTOCOL_ERROR")
                     /\ c_sendev' = NoSendEvent
                [] c_streams[sid].state = "Closed" ->
                     /\ c_event' = Event("window_update", sid, inc, "ignored", "none")
                     /\ c_sendev' = NoSendEvent
                     /\ UNCHANGED << c_state, c_streams, c_last_peer,
                                     c_send_window, c_opened, c_end_recv,
                                     c_pending >>
                [] OTHER ->
                     LET r == apply_increment(c_streams[sid].send_window, inc) IN
                     IF r.ok
                     THEN Resume([c_streams EXCEPT ![sid].send_window = r.window],
                                 c_send_window, sid, inc)
                     ELSE /\ StreamError("window_update", sid, inc, "FLOW_CONTROL_ERROR")
                          /\ c_sendev' = NoSendEvent
    /\ UNCHANGED << c_end_sent, c_sends >>
    /\ UNCHANGED << wu_vars, sy_vars >>

\* an inbound RstStream frame: legal from any non-Idle state, forces Closed
\* and discards the buffered data of the stream
RecvRstStream ==
    /\ c_state = "open"
    /\ c_frames < MaxFrames
    /\ c_frames' = c_frames + 1
    /\ \E sid \in PeerStreamIds :
         IF c_streams[sid].state = "Idle"
         THEN ConnError("rst_stream", sid, 0, "PROTOCOL_ERROR")
         ELSE /\ c_streams' = [c_streams EXCEPT ![sid].state = "Closed"]
              /\ c_pending' = [c_pending EXCEPT ![sid] = 0]
              /\ c_event' = Event("rst_stream", sid, 0, "ok", "none")
              /\ UNCHANGED << c_state, c_last_peer, c_send_window, c_opened,
                              c_end_recv >>
    /\ c_sendev' = NoSendEvent
    /\ UNCHANGED << c_end_sent, c_sends >>
    /\ UNCHANGED << wu_vars, sy_vars >>

\* the streams the application was handed
KnownStreams == { id \in PeerStreamIds : c_streams[id].state # "Idle" }

\* sizes of the Data the application sends
SendSizes == {1, InitialWindowSize}

\* the application sends Headers (a response head, or trailers with
\* END_STREAM) on stream sid; after the local end closed, or while a send of
\* the stream is parked, the call fails with a result value
SendHeaders ==
    /\ c_state = "open"
    /\ c_sends < MaxSends
    /\ c_sends' = c_sends + 1
    /\ \E sid \in KnownStreams, end \in BOOLEAN :
         IF CanSend(c_streams[sid].state) /\ c_pending[sid] = 0
         THEN /\ c_streams' = [c_streams EXCEPT
                                ![sid].state = IF end THEN send_end(@) ELSE @]
              /\ c_end_sent' = IF end THEN c_end_sent \cup {sid} ELSE c_end_sent
              /\ c_sendev' = SendEvent("headers", sid, 0, "emitted")
         ELSE /\ c_sendev' = SendEvent("headers", sid, 0, "error")
              /\ UNCHANGED << c_streams, c_end_sent >>
    /\ c_event' = NoEvent
    /\ UNCHANGED << c_state, c_last_peer, c_send_window, c_opened,
                    c_frames, c_end_recv, c_pending >>
    /\ UNCHANGED << wu_vars, sy_vars >>

\* n octets of Data leave on stream sid: both windows shrink by n
Emit(sid, n) ==
    /\ c_streams' = [c_streams EXCEPT ![sid].send_window = @ - n]
    /\ c_send_window' = c_send_window - n
    /\ c_sendev' = SendEvent("data", sid, n, "emitted")

\* the application sends n octets of Data on stream sid: they are emitted when
\* admissible, otherwise the send is parked and the caller suspends
SendData ==
    /\ c_state = "open"
    /\ c_sends < MaxSends
    /\ c_sends' = c_sends + 1
    /\ \E sid \in KnownStreams, n \in SendSizes :
         IF CanSend(c_streams[sid].state) /\ c_pending[sid] = 0
         THEN IF admissible(c_streams[sid].send_window, c_send_window, n)
              THEN /\ Emit(sid, n)
                   /\ UNCHANGED c_pending
              ELSE /\ c_pending' = [c_pending EXCEPT ![sid] = n]
                   /\ c_sendev' = SendEvent("data", sid, n, "suspended")
                   /\ UNCHANGED << c_streams, c_send_window >>
         ELSE /\ c_sendev' = SendEvent("data", sid, n, "error")
              /\ UNCHANGED << c_streams, c_send_window, c_pending >>
    /\ c_event' = NoEvent
    /\ UNCHANGED << c_state, c_last_peer, c_opened, c_frames,
                    c_end_sent, c_end_recv >>
    /\ UNCHANGED << wu_vars, sy_vars >>

H2Next ==
    \/ RecvHeaders
    \/ RecvData
    \/ RecvWindowUpdate
    \/ RecvRstStream
    \/ SendHeaders
    \/ SendData

H2Spec == H2Init /\ [][H2Next]_vars

(***************************************************************************)
(* Properties of the protocol engine.                                      *)
(***************************************************************************)
\* C9: the per-stream send window never exceeds 2^31-1: an increment that
\* would push an open stream's window above 2^31-1 is reported as a
\* flow-control error and the window keeps its value (it does not wrap).
C9_WindowNeverOverflows ==
    /\ \A id \in PeerStreamIds :
         /\ c_streams[id].send_window <= Max31
         /\ c_streams[id].send_window >= 0
    /\ (c_event.kind = "window_update" /\ c_event.sid # 0
          /\ c_event.outcome # "ignored" /\ c_event.known
          /\ c_event.inc > Max31 - c_event.before)
         => /\ c_event.outcome = "stream_error"
            /\ c_event.code = "FLOW_CONTROL_ERROR"
            /\ c_streams[c_event.sid].send_window = c_event.before

C9_Witness ==
    /\ c_event.kind = "window_update"
    /\ c_event.sid = 1
    /\ c_event.before = Max31
    /\ c_event.inc = 1
    /\ c_event.outcome = "stream_error"
    /\ c_streams[1].send_window = Max31

\* C10: stream ids opened by the peer are strictly increasing: a Headers
\* frame that would open a stream with an id lower than the highest id seen
\* is a connection error, and no id is used for two streams.
C10_StreamIdsIncrease ==
    /\ \A i, j \in 1 .. Len(c_opened) : i < j => c_opened[i] < c_opened[j]
    /\ (c_event.kind = "headers" /\ ~c_event.known /\ c_event.sid < c_event.last)
         => /\ c_event.outcome = "conn_error"
            /\ c_state = "closed"
            /\ c_streams[c_event.sid].state = "Idle"

C10_Witness ==
    /\ c_opened = << 1, 3 >>
    /\ c_event.kind = "headers"
    /\ c_event.sid = 2
    /\ c_event.outcome = "conn_error"
    /\ c_state = "closed"

\* C11: a stream on which END_STREAM was sent and received is Closed, and a
\* Data frame received for it from then on is not delivered to the
\* application: it yields a stream error and the connection stays open.
C11_ClosedAcceptsNoData ==
    /\ \A id \in PeerStreamIds :
         (id \in c_end_sent /\ id \in c_end_recv) => c_streams[id].state = "Closed"
    /\ (c_event.kind = "data" /\ c_event.ended)
         => /\ c_event.outcome = "stream_error"
            /\ c_event.code = "STREAM_CLOSED"
            /\ c_streams[c_event.sid].state = "Closed"
            /\ c_state = "open"

C11_Witness ==
    /\ c_opened = << 3 >>
    /\ 3 \in c_end_sent
    /\ 3 \in c_end_recv
    /\ c_event.kind = "data"
    /\ c_event.sid = 3
    /\ c_event.ended
    /\ c_event.outcome = "stream_error"
    /\ c_state = "open"

\* a parked send of stream sid that both windows admit
SendAdmissible(sid) ==
    /\ c_state = "open"
    /\ c_pending[sid] > 0
    /\ c_streams[sid].send_window >= c_pending[sid]
    /\ c_send_window >= c_pending[sid]

\* an application call that sends Data on a sendable stream while the
\* connection send window is 0
SendAtZeroWindow ==
    /\ c_sends' = c_sends + 1
    /\ c_sendev'.kind = "data"
    /\ c_sendev'.outcome # "error"
    /\ c_send_window = 0

\* the parked send of stream sid leaves the parking place in this step
Unparked(sid) == c_pending[sid] > 0 /\ c_pending'[sid] = 0

\* the octets of the parked send of stream sid went out in this step, after
\* the increment of the WindowUpdate that the step handled
ParkedSendEmitted(sid) ==
    /\ c_event'.kind = "window_update"
    /\ c_event'.outcome = "ok"
    /\ c_sendev'.outcome = "resumed"
    /\ c_streams'[sid].send_window =
         (c_streams[sid].send_window - c_pending[sid])
            + (IF c_event'.sid = sid THEN c_event'.inc ELSE 0)
    /\ c_send_window' <=
         (c_send_window - c_pending[sid])
            + (IF c_event'.sid = 0 THEN c_event'.inc ELSE 0)

CallDone == a_pc = "done"

\* C6: a pass-through function (one Next::call, its result returned) is
\* transparent: the inner service is called once with the request given to
\* SyncService::call, and call returns Ok with the response (head and body)
\* the inner service returned.
C6_PassThroughTransparent ==
    (CallDone /\ s_func = PassThrough /\ s_inner.tag = "Ok")
        => /\ inner_calls = << s_req0 >>
           /\ s_result = s_inner

C6_Witness ==
    /\ CallDone
    /\ s_func = PassThrough
    /\ s_req0 = "r2"
    /\ inner_calls = << "r2" >>
    /\ s_result = Ok(Response("404", "b2"))

\* C7: if the sync function panics (before any Next::call or after its
\* Next::calls returned), SyncService::call never returns Ok or Err, and it
\* does not block forever: it panics.
C7_FuncPanicIsTaskPanic ==
    /\ [](t_panic = "func" => s_result.tag \in {"None", "Panic"})
    /\ (t_panic = "func") ~> (CallDone /\ s_result = Panic)

C7_Witness ==
    /\ t_panic = "func"
    /\ t_calls = 1
    /\ inner_calls # << >>
    /\ CallDone
    /\ s_result = Panic

\* C8: the inner service is driven only by Next::call: its call starts only
\* after the function called Next::call, with the request that call handed
\* over; if the function never calls Next::call the inner service is never
\* called.
C8_InnerOnlyViaNext ==
    /\ Len(inner_calls) <= Len(t_sent)
    /\ \A i \in 1 .. Len(inner_calls) : inner_calls[i] = t_sent[i]
    /\ (s_func.calls = 0 => inner_calls = << >>)

C8_Witness ==
    /\ CallDone
    /\ s_func.calls = 0
    /\ t_pc = "exited"
    /\ inner_calls = << >>

\* C14: SyncService::call never deadlocks, for a function that calls
\* Next::call any finite number of times: the async task (waiting for the
\* thread to exit) and the blocking thread (waiting in Next::call for a
\* result nobody will send) are never left waiting on each other.
C14_NeverDeadlocks ==
    ~(/\ s_func.final # "panic"
      /\ a_pc = "join"
      /\ handle = NoResult
      /\ t_pc = "recv"
      /\ chan2 = << >>
      /\ tx2_alive)

\* C15: the first Next::call returns only after the inner service's call has
\* completed, with Ok(head of the inner response, unit body) when the inner
\* service returned Ok and Err(e) when it returned Err(e); a function that
\* returns that Err(e) makes SyncService::call return Err(e).
C15_NextReturnsInnerOutcome ==
    /\ (t_last # NoResult)
          => /\ a_res = s_inner
             /\ Len(inner_calls) = 1
             /\ a_pc \in {"join", "done"}
             /\ (s_inner.tag = "Ok" => t_last = Ok(Response(s_inner.val.head, "unit")))
             /\ (s_inner.tag = "Err" => t_last = s_inner)
    /\ (t_pc = "recv" /\ t_calls = 1 /\ a_pc \in {"recv", "service", "inner", "send"})
          => t_last = NoResult
    /\ (CallDone /\ s_func.final = "pass" /\ s_inner.tag = "Err")
          => s_result = s_inner

C15_Witness ==
    /\ CallDone
    /\ s_func = PassThrough
    /\ s_inner = Err("e2")
    /\ t_last = Err("e2")
    /\ s_result = Err("e2")

\* C16: a function that returns Err(e) without having called Next::call
\* short-circuits the request: SyncService::call returns Err(e) and the inner
\* service is never called.
C16_ErrShortCircuits ==
    /\ (s_func.calls = 0 /\ s_func.final = "err") => inner_calls = << >>
    /\ (CallDone /\ s_func.calls = 0 /\ s_func.final = "err")
          => s_result = Err(FuncError)

C16_Witness ==
    /\ CallDone
    /\ s_func = [calls |-> 0, final |-> "err"]
    /\ s_req0 = "r1"
    /\ inner_calls = << >>
    /\ s_result = Err(FuncError)

====
